---------------------------- MODULE Spec2Model ----------------------------
(***************************************************************************)
(* Model of src/signpdf.js (class SignPdf): sign() embeds a detached       *)
(* PKCS#7 signature in the /ByteRange + /Contents placeholder of a PDF     *)
(* buffer, verify() checks such a signature.                               *)
(*                                                                         *)
(* A Buffer is a sequence of one-character strings, offsets are 0-based    *)
(* as in the source.  DER bytes are integers 0..255.  The toolkit          *)
(* (node-forge, crypto) is modelled by what the calls do: DER is an        *)
(* explicit byte layout, hex encoding is computed digit by digit, the      *)
(* digest is a polynomial hash of the bytes, an RSA signature is the       *)
(* signed bytes tagged with the key.                                       *)
(***************************************************************************)
EXTENDS Integers, Sequences, FiniteSets, TLC

VARIABLES
    lastSignature,  \* this.lastSignature
    held,           \* the document the caller holds: the Buffer sign() last returned
    loc,            \* the locals of the most recent sign() call
    ret             \* what the most recent call returned or threw

vars == <<lastSignature, held, loc, ret>>

(***************************************************************************)
(* Bounds of the model.                                                    *)
(***************************************************************************)
\* widest bracketed /Contents field of the fixture documents, counted in
\* characters above the narrowest one
MaxExtraWidth == 5

(***************************************************************************)
(* Text helpers: JavaScript strings and Buffers.                           *)
(***************************************************************************)
Min(a, b) == IF a < b THEN a ELSE b
Max(a, b) == IF a > b THEN a ELSE b

RECURSIVE Repeat(_, _)
\* String.prototype.repeat for a count >= 0 (already truncated to an integer)
Repeat(s, n) == IF n <= 0 THEN <<>> ELSE s \o Repeat(s, n - 1)

Digit(d) == <<"0", "1", "2", "3", "4", "5", "6", "7", "8", "9">>[d + 1]

RECURSIVE NatToDec(_)
NatToDec(n) == IF n < 10 THEN <<Digit(n)>> ELSE NatToDec(n \div 10) \o <<Digit(n % 10)>>

\* Number.prototype.toString as used by Array.prototype.join on integers
ToDec(n) == IF n < 0 THEN <<"-">> \o NatToDec(0 - n) ELSE NatToDec(n)

\* Buffer.prototype.indexOf(needle, byteOffset) for a non-empty needle:
\* a negative offset counts from the end of the buffer, -1 when not found
IndexOf(buf, needle, byteOffset) ==
    LET len   == Len(buf)
        start == IF byteOffset < 0
                 THEN (IF byteOffset + len >= 0 THEN byteOffset + len ELSE 0)
                 ELSE (IF byteOffset + Len(needle) <= len THEN byteOffset ELSE -1)
        hits  == IF start < 0 THEN {}
                 ELSE {i \in start .. (len - Len(needle)) :
                           SubSeq(buf, i + 1, i + Len(needle)) = needle}
    IN  IF hits = {} THEN -1 ELSE CHOOSE i \in hits : \A j \in hits : i <= j

\* Buffer.prototype.slice(start, end): negative indices count from the end,
\* both are clamped to the buffer
Slice(buf, start, end) ==
    LET len == Len(buf)
        s   == IF start < 0 THEN Max(len + start, 0) ELSE Min(start, len)
        e   == IF end < 0 THEN Max(len + end, 0) ELSE Min(end, len)
    IN  IF e <= s THEN <<>> ELSE SubSeq(buf, s + 1, e)

SliceFrom(buf, start) == Slice(buf, start, Len(buf))

HexDigits == <<"0", "1", "2", "3", "4", "5", "6", "7", "8", "9",
               "a", "b", "c", "d", "e", "f">>

RECURSIVE ToHex(_)
\* Buffer.from(raw, 'binary').toString('hex')
ToHex(bytes) ==
    IF bytes = <<>> THEN <<>>
    ELSE <<HexDigits[(Head(bytes) \div 16) + 1], HexDigits[(Head(bytes) % 16) + 1]>>
         \o ToHex(Tail(bytes))

IsHexDigit(c) == \E i \in 1 .. Len(HexDigits) : HexDigits[i] = c
HexValue(c) == (CHOOSE i \in 1 .. Len(HexDigits) : HexDigits[i] = c) - 1


\* Buffer.from(hex, 'hex'): decodes pairs of hex digits, stops at the first
\* pair that is not one
RECURSIVE FromHex(_)
FromHex(hex) ==
    IF Len(hex) < 2 \/ ~IsHexDigit(hex[1]) \/ ~IsHexDigit(hex[2]) THEN <<>>
    ELSE <<HexValue(hex[1]) * 16 + HexValue(hex[2])>> \o FromHex(SubSeq(hex, 3, Len(hex)))

IsDigit(c) == \E d \in 0 .. 9 : Digit(d) = c

RECURSIVE ParseDec(_, _)
\* parseInt of a string of decimal digits (acc is the value read so far)
ParseDec(s, acc) ==
    IF s = <<>> THEN acc
    ELSE ParseDec(Tail(s), acc * 10 + ((CHOOSE d \in 0 .. 9 : Digit(d) = Head(s))))

(***************************************************************************)
(* The literals of the source.                                             *)
(***************************************************************************)
\* DEFAULT_BYTE_RANGE_PLACEHOLDER = '**********'
DEFAULT_BYTE_RANGE_PLACEHOLDER == <<"*", "*", "*", "*", "*", "*", "*", "*", "*", "*">>

ByteRangeTag == <<"/", "B", "y", "t", "e", "R", "a", "n", "g", "e", " ", "[">>

ContentsTag == <<"/", "C", "o", "n", "t", "e", "n", "t", "s", " ">>

RECURSIVE Join(_)
\* Array.prototype.join(' ') of an array of strings
Join(parts) ==
    IF parts = <<>> THEN <<>>
    ELSE IF Len(parts) = 1 THEN parts[1]
    ELSE parts[1] \o <<" ">> \o Join(Tail(parts))

\* `/ByteRange [${byteRangePlaceholder.join(' ')}]`
byteRangeString ==
    LET slot == <<"/">> \o DEFAULT_BYTE_RANGE_PLACEHOLDER
    IN  ByteRangeTag \o Join(<<ToDec(0), slot, slot, slot>>) \o <<"]">>

(***************************************************************************)
(* The cryptographic toolkit (node-forge, crypto), by what the calls do.   *)
(***************************************************************************)
\* the characters a document is made of; a character's byte value is its
\* position here
Alphabet ==
    <<"\n", " ", "%", "*", "-", "/", "<", ">", "[", "]",
      "0", "1", "2", "3", "4", "5", "6", "7", "8", "9",
      "a", "b", "c", "d", "e", "f",
      "B", "C", "R", "g", "n", "o", "s", "t", "y", "x">>

Code(c) == CHOOSE i \in 1 .. Len(Alphabet) : Alphabet[i] = c

\* the modulus of the digest: a prime whose square fits a 32-bit integer
HashModulus == 46337

RECURSIVE PowerOf31(_)
PowerOf31(k) ==
    IF k = 0 THEN 1
    ELSE LET h == PowerOf31(k \div 2)
         IN  (((h * h) % HashModulus) * (IF k % 2 = 1 THEN 31 ELSE 1)) % HashModulus

RECURSIVE HashOf(_, _, _)
\* the polynomial buf[lo] * 31^(hi-lo) + ... + buf[hi] modulo HashModulus
HashOf(buf, lo, hi) ==
    IF lo > hi THEN 0
    ELSE IF lo = hi THEN Code(buf[lo])
    ELSE LET mid == (lo + hi) \div 2
         IN  ((HashOf(buf, lo, mid) * PowerOf31(hi - mid)) + HashOf(buf, mid + 1, hi))
                 % HashModulus

\* crypto.createHash(alg).update(bytes).digest(): two digest bytes computed
\* from every byte of the input and from its length
Digest(buf) ==
    LET h == (HashOf(buf, 1, Len(buf)) + (Len(buf) * 7919)) % HashModulus
    IN  <<h \div 256, h % 256>>

\* a certificate is [serial, n, e]; one DER byte carries it
CertByte(c) == c.serial * 16 + c.n * 4 + c.e
ByteCert(b) == [serial |-> b \div 16, n |-> (b \div 4) % 4, e |-> b % 4]

\* RSA key material as one byte
KeyByte(k) == 64 + k.n * 4 + k.e

\* forge.asn1.toDer of the SET of authenticated attributes:
\* contentType, messageDigest, signingTime
AttrsDer(m) == <<m.contentType>> \o m.messageDigest \o <<m.signingTime>>

\* the signer's RSA signature over the authenticated attributes
RsaSign(key, data) == data \o <<KeyByte(key)>>

\* crypto.createVerify(alg).update(data).verify(certPem, sig)
RsaVerify(cert, sig, data) == sig = data \o <<KeyByte(cert)>>

RECURSIVE MapCertBytes(_)
MapCertBytes(certs) ==
    IF certs = <<>> THEN <<>> ELSE <<CertByte(Head(certs))>> \o MapCertBytes(Tail(certs))

\* forge.asn1.toDer(p7.toAsn1()).getBytes(): SEQUENCE tag, the certificates,
\* the signer info (serial, digest algorithm, attributes, signature)
ToDer(m) ==
    <<48, Len(m.certificates)>> \o MapCertBytes(m.certificates)
        \o <<m.signerSerial, m.digestAlgorithm>> \o AttrsDer(m) \o m.signature

\* bytes of a SignedData with nCerts certificates
DerLength(nCerts) == 2 + nCerts + 2 + 4 + 5

RECURSIVE MapByteCerts(_)
MapByteCerts(bytes) ==
    IF bytes = <<>> THEN <<>> ELSE <<ByteCert(Head(bytes))>> \o MapByteCerts(Tail(bytes))

\* forge.asn1.fromDer + forge.pkcs7.messageFromAsn1 succeed on these bytes
DerParses(bytes) ==
    /\ Len(bytes) >= 2
    /\ bytes[1] = 48
    /\ Len(bytes) >= DerLength(bytes[2])

\* the message read back from DER bytes that parse (bytes left over are ignored)
FromDer(bytes) ==
    LET n == bytes[2]
    IN  [certificates    |-> MapByteCerts(SubSeq(bytes, 3, 2 + n)),
         signerSerial    |-> bytes[n + 3],
         digestAlgorithm |-> bytes[n + 4],
         contentType     |-> bytes[n + 5],
         messageDigest   |-> SubSeq(bytes, n + 6, n + 7),
         signingTime     |-> bytes[n + 8],
         signature       |-> SubSeq(bytes, n + 9, n + 13)]


\* forge.pki.oids.sha256 and forge.pki.oids.data as the bytes ToDer writes
Sha256Oid == 1
DataOid == 1

(***************************************************************************)
(* Errors.  A SignPdfError carries its type; anything else thrown (by the  *)
(* toolkit or by the runtime) is a plain Error.                            *)
(***************************************************************************)
TYPE_INPUT == "InputError"
TYPE_PARSE == "ParseError"
VERIFY_SIGNATURE == "VerifySignatureError"

SignPdfError(message, detail, type) ==
    [isSignPdfError |-> TRUE, type |-> type, message |-> message, detail |-> detail]

OtherError(message) ==
    [isSignPdfError |-> FALSE, type |-> "Error", message |-> message, detail |-> <<>>]

NoError == [isSignPdfError |-> FALSE, type |-> "", message |-> "", detail |-> <<>>]

(***************************************************************************)
(* helpers.js                                                              *)
(***************************************************************************)
\* removeTrailingNewLine(pdf): the buffer without its final "\n", if it has one
removeTrailingNewLine(pdf) ==
    IF Len(pdf) > 0 /\ pdf[Len(pdf)] = "\n" THEN SubSeq(pdf, 1, Len(pdf) - 1) ELSE pdf

(***************************************************************************)
(* SignPdf.sign, step by step.                                             *)
(***************************************************************************)
\* const contentsTagPos = pdf.indexOf('/Contents ', byteRangeEnd);
contentsTagPosOf(pdf, byteRangeEnd) == IndexOf(pdf, ContentsTag, byteRangeEnd)

\* const placeholderPos = pdf.indexOf('<', contentsTagPos);
placeholderPosOf(pdf, contentsTagPos) == IndexOf(pdf, <<"<">>, contentsTagPos)

\* const placeholderEnd = pdf.indexOf('>', placeholderPos);
placeholderEndOf(pdf, placeholderPos) == IndexOf(pdf, <<">">>, placeholderPos)

\* const placeholderLengthWithBrackets = (placeholderEnd + 1) - placeholderPos;
placeholderLengthWithBracketsOf(placeholderPos, placeholderEnd) ==
    (placeholderEnd + 1) - placeholderPos

\* const placeholderLength = placeholderLengthWithBrackets - 2;
placeholderLengthOf(placeholderLengthWithBrackets) == placeholderLengthWithBrackets - 2

\* mutant of byteRangeOf: the second span starts at the placeholder, the width
\* of the field is forgotten in its length
byteRangeOfForgetsWidth(pdfLength, placeholderPos, placeholderLengthWithBrackets) ==
    <<0,
      placeholderPos,
      placeholderPos + placeholderLengthWithBrackets,
      pdfLength - placeholderPos>>

\* byteRange[0..3] of the source is byteRange[1..4] here
byteRangeOf(pdfLength, placeholderPos, placeholderLengthWithBrackets) ==
    <<0,
      placeholderPos,
      placeholderPos + placeholderLengthWithBrackets,
      pdfLength - (placeholderPos + placeholderLengthWithBrackets)>>

\* `/ByteRange [${byteRange.join(' ')}]`
byteRangeText(byteRange) ==
    ByteRangeTag
        \o Join(<<ToDec(byteRange[1]), ToDec(byteRange[2]),
                  ToDec(byteRange[3]), ToDec(byteRange[4])>>)
        \o <<"]">>

\* the count given to ' '.repeat(); a negative one throws a RangeError
byteRangePadding(text) == Len(byteRangeString) - Len(text)

\* actualByteRange += ' '.repeat(byteRangeString.length - actualByteRange.length);
actualByteRangeOf(byteRange) ==
    byteRangeText(byteRange) \o Repeat(<<" ">>, byteRangePadding(byteRangeText(byteRange)))

\* Replace the /ByteRange placeholder with the actual ByteRange
replaceByteRange(pdf, byteRangePos, byteRangeEnd, actualByteRange) ==
    Slice(pdf, 0, byteRangePos) \o actualByteRange \o SliceFrom(pdf, byteRangeEnd)

\* Remove the placeholder signature
removePlaceholder(pdf, byteRange) ==
    Slice(pdf, 0, byteRange[2])
        \o Slice(pdf, byteRange[3], byteRange[3] + byteRange[4])

\* the certificate bag matches the private key
keyMatches(privateKey, publicKey) == privateKey.n = publicKey.n /\ privateKey.e = publicKey.e

\* mutant of certificateIndex: the forEach stops at the first match
certificateIndexFirstMatch(certBags, privateKey) ==
    LET matches == {i \in 1 .. Len(certBags) : keyMatches(privateKey, certBags[i])}
    IN  IF matches = {} THEN 0 ELSE CHOOSE i \in matches : \A j \in matches : i <= j

\* the index of the certificate bound to the signer once the forEach over the
\* certificate bags is over, 0 when `certificate` is still undefined
certificateIndex(certBags, privateKey) ==
    LET matches == {i \in 1 .. Len(certBags) : keyMatches(privateKey, certBags[i])}
    IN  IF matches = {} THEN 0 ELSE CHOOSE i \in matches : \A j \in matches : j <= i

\* p7.addCertificate(certBags[i].cert) for every bag, in bag order
addedCertificates(certBags) == [i \in 1 .. Len(certBags) |-> certBags[i]]

\* p7.addSigner({...}); p7.sign({detached: true});
signedData(content, certBags, certificate, privateKey, now) ==
    LET attrs == [contentType   |-> DataOid,
                  messageDigest |-> Digest(content),
                  signingTime   |-> now]
    IN  [certificates    |-> addedCertificates(certBags),
         signerSerial    |-> certificate.serial,
         digestAlgorithm |-> Sha256Oid,
         contentType     |-> attrs.contentType,
         messageDigest   |-> attrs.messageDigest,
         signingTime     |-> attrs.signingTime,
         signature       |-> RsaSign(privateKey, AttrsDer(attrs))]

\* mutant of exceedsPlaceholder: >= for >
exceedsPlaceholderOrFills(rawLength, placeholderLength) == (rawLength * 2) >= placeholderLength

\* if ((raw.length * 2) > placeholderLength)
exceedsPlaceholder(rawLength, placeholderLength) == (rawLength * 2) > placeholderLength

\* the count given to String.fromCharCode(0).repeat(): (placeholderLength / 2)
\* - raw.length, a fraction being truncated by repeat()
paddingBytes(placeholderLength, rawLength) == (placeholderLength \div 2) - rawLength

\* signature += Buffer.from('\0'.repeat(...)).toString('hex');
paddedSignature(signature, placeholderLength, rawLength) ==
    signature \o Repeat(<<"0", "0">>, paddingBytes(placeholderLength, rawLength))

\* Place it in the document.
placeSignature(pdf, byteRange, signature) ==
    Slice(pdf, 0, byteRange[2]) \o <<"<">> \o signature \o <<">">>
        \o SliceFrom(pdf, byteRange[2])


\* the locals of a sign() call before any of them is assigned
NoLocals ==
    [pdfBuffer |-> <<>>, pdf |-> <<>>,
     byteRangePos |-> -1, byteRangeEnd |-> -1, contentsTagPos |-> -1,
     placeholderPos |-> -1, placeholderEnd |-> -1,
     placeholderLengthWithBrackets |-> 0, placeholderLength |-> 0,
     byteRange |-> <<0, 0, 0, 0>>, actualByteRange |-> <<>>,
     computedByteRange |-> FALSE,
     certBags |-> <<>>, privateKey |-> [n |-> 0, e |-> 0],
     certificates |-> <<>>, certificate |-> 0,
     rawLength |-> 0, signature |-> <<>>, builtSignature |-> FALSE,
     passedCapacityCheck |-> FALSE, padded |-> <<>>]

\* a call that throws, with the locals it had assigned; this.lastSignature is
\* assigned on line 171 only, which no throwing path reaches
Thrown(error, locals) ==
    [threw |-> TRUE, error |-> error, value |-> <<>>, loc |-> locals, stored |-> FALSE]

\* a call that returns; line 171 assigned loc.signature to this.lastSignature
Returned(value, locals) ==
    [threw |-> FALSE, error |-> NoError, value |-> value, loc |-> locals, stored |-> TRUE]

\* mutant of embed: this.lastSignature is assigned before the capacity check
embedStoresFirst(content, raw, l) ==
    LET l2 == [l EXCEPT !.rawLength = Len(raw), !.signature = ToHex(raw),
                        !.builtSignature = TRUE]
    IN  IF exceedsPlaceholder(Len(raw), l.placeholderLength)
        THEN [Thrown(SignPdfError("Signature exceeds placeholder length: ",
                                  ToDec(Len(raw) * 2) \o <<" ", ">", " ">>
                                      \o ToDec(l.placeholderLength),
                                  TYPE_INPUT),
                     l2) EXCEPT !.stored = TRUE]
        ELSE LET padded == paddedSignature(l2.signature, l.placeholderLength, Len(raw))
             IN  Returned(placeSignature(content, l.byteRange, padded),
                          [l2 EXCEPT !.passedCapacityCheck = TRUE, !.padded = padded])

\* sign(), lines 158-186: the capacity check, this.lastSignature, the padding
\* and the splice
embed(content, raw, l) ==
    LET l2 == [l EXCEPT !.rawLength = Len(raw), !.signature = ToHex(raw),
                        !.builtSignature = TRUE]
    IN  IF exceedsPlaceholder(Len(raw), l.placeholderLength)
        THEN Thrown(SignPdfError("Signature exceeds placeholder length: ",
                                 ToDec(Len(raw) * 2) \o <<" ", ">", " ">>
                                     \o ToDec(l.placeholderLength),
                                 TYPE_INPUT),
                    l2)
        ELSE LET padded == paddedSignature(l2.signature, l.placeholderLength, Len(raw))
             IN  Returned(placeSignature(content, l.byteRange, padded),
                          [l2 EXCEPT !.passedCapacityCheck = TRUE, !.padded = padded])

\* sign(), lines 85-156: the PKCS#12 container, the certificates, the signer
build(content, p12Buffer, now, l) ==
    IF ~p12Buffer.parses
    THEN Thrown(OtherError("forge: cannot read the PKCS#12 container"), l)
    ELSE LET certBags   == p12Buffer.certBags
             privateKey == p12Buffer.key
             chosen     == certificateIndex(certBags, privateKey)
             l2 == [l EXCEPT !.certBags = certBags, !.privateKey = privateKey,
                             !.certificates = addedCertificates(certBags),
                             !.certificate = chosen]
         IN  IF chosen = 0
             THEN Thrown(SignPdfError(
                             "Failed to find a certificate that matches the private key.",
                             <<>>, TYPE_INPUT),
                         l2)
             ELSE embed(content,
                        ToDer(signedData(content, certBags, certBags[chosen], privateKey, now)),
                        l2)

\* sign(), lines 58-83: the ByteRange, its text, the two rewrites of the buffer
rewrite(pdf, p12Buffer, now, l) ==
    LET byteRangeEnd   == l.byteRangePos + Len(byteRangeString)
        contentsTagPos == contentsTagPosOf(pdf, byteRangeEnd)
        placeholderPos == placeholderPosOf(pdf, contentsTagPos)
        placeholderEnd == placeholderEndOf(pdf, placeholderPos)
        withBrackets   == placeholderLengthWithBracketsOf(placeholderPos, placeholderEnd)
        byteRange      == byteRangeOf(Len(pdf), placeholderPos, withBrackets)
        l2 == [l EXCEPT !.byteRangeEnd = byteRangeEnd, !.contentsTagPos = contentsTagPos,
                        !.placeholderPos = placeholderPos, !.placeholderEnd = placeholderEnd,
                        !.placeholderLengthWithBrackets = withBrackets,
                        !.placeholderLength = placeholderLengthOf(withBrackets),
                        !.byteRange = byteRange, !.computedByteRange = TRUE]
    IN  IF byteRangePadding(byteRangeText(byteRange)) < 0
        THEN Thrown(OtherError("RangeError: Invalid count value"), l2)
        ELSE LET actualByteRange == actualByteRangeOf(byteRange)
                 replaced == replaceByteRange(pdf, l.byteRangePos, byteRangeEnd, actualByteRange)
                 content  == removePlaceholder(replaced, byteRange)
             IN  build(content, p12Buffer, now,
                       [l2 EXCEPT !.actualByteRange = actualByteRange])

\* sign(pdfBuffer, p12Buffer); now is what new Date() returns
sign(pdfBuffer, p12Buffer, now) ==
    IF ~pdfBuffer.isBuffer
    THEN Thrown(SignPdfError("PDF expected as Buffer.", <<>>, TYPE_INPUT), NoLocals)
    ELSE IF ~p12Buffer.isBuffer
    THEN Thrown(SignPdfError("p12 certificate expected as Buffer.", <<>>, TYPE_INPUT),
                NoLocals)
    ELSE LET pdf == removeTrailingNewLine(pdfBuffer.bytes)
             byteRangePos == IndexOf(pdf, byteRangeString, 0)
             l == [NoLocals EXCEPT !.pdfBuffer = pdfBuffer.bytes, !.pdf = pdf,
                                   !.byteRangePos = byteRangePos]
         IN  IF byteRangePos = -1
             THEN Thrown(SignPdfError("Could not find ByteRange placeholder: ",
                                      byteRangeString, TYPE_PARSE),
                         l)
             ELSE rewrite(pdf, p12Buffer, now, l)

(***************************************************************************)
(* helpers.js: extractSignature                                            *)
(***************************************************************************)
RECURSIVE Words(_, _)
\* the runs of characters other than spaces (cur is the run being read)
Words(s, cur) ==
    IF s = <<>> THEN (IF cur = <<>> THEN <<>> ELSE <<cur>>)
    ELSE IF Head(s) = " "
         THEN (IF cur = <<>> THEN <<>> ELSE <<cur>>) \o Words(Tail(s), <<>>)
         ELSE Words(Tail(s), Append(cur, Head(s)))

AllDigits(w) == w # <<>> /\ \A i \in 1 .. Len(w) : IsDigit(w[i])

RECURSIVE StripZeroBytes(_)
\* the hex payload without the '00' pairs that pad it at the end
StripZeroBytes(hex) ==
    IF Len(hex) >= 2 /\ hex[Len(hex) - 1] = "0" /\ hex[Len(hex)] = "0"
    THEN StripZeroBytes(SubSeq(hex, 1, Len(hex) - 2))
    ELSE hex

\* extractSignature(pdf): reads the /ByteRange written in the document, returns
\* the two spans it denotes, concatenated, and the bytes of the hex field
\* between them
extractSignature(pdf) ==
    LET byteRangePos == IndexOf(pdf, ByteRangeTag, 0)
        byteRangeEnd == IndexOf(pdf, <<"]">>, byteRangePos)
        words == Words(Slice(pdf, byteRangePos + Len(ByteRangeTag), byteRangeEnd), <<>>)
        none == [threw |-> TRUE, error |-> NoError, ByteRange |-> <<0, 0, 0, 0>>,
                 signature |-> <<>>, signedData |-> <<>>]
    IN  IF byteRangePos = -1 \/ byteRangeEnd = -1
        THEN [none EXCEPT !.error =
                 SignPdfError("Failed to locate ByteRange.", <<>>, TYPE_PARSE)]
        ELSE IF Len(words) # 4 \/ \E i \in 1 .. Len(words) : ~AllDigits(words[i])
        THEN [none EXCEPT !.error = OtherError("TypeError: no ByteRange values")]
        ELSE LET r == [i \in 1 .. 4 |-> ParseDec(words[i], 0)]
             IN  [threw      |-> FALSE,
                  error      |-> NoError,
                  ByteRange  |-> r,
                  signature  |-> FromHex(StripZeroBytes(
                                     Slice(pdf, r[1] + r[2] + 1, r[3] - 1))),
                  signedData |-> Slice(pdf, r[1], r[1] + r[2])
                                     \o Slice(pdf, r[3], r[3] + r[4])]

(***************************************************************************)
(* SignPdf.verify                                                          *)
(***************************************************************************)
\* forge.pki.oids[hashAlgorithmOid] is a digest the runtime knows
knownDigest(oid) == oid = Sha256Oid

\* crypto.createVerify(hashAlgorithm).update(buf).verify(cert, sig, 'binary')
\* with cert = message.certificates[0]
validAuthenticatedAttributes(message) ==
    RsaVerify(message.certificates[1], message.signature, AttrsDer(message))

\* dataDigest.toString('binary') === attrDigest
validContentDigest(message, signedBytes) == Digest(signedBytes) = message.messageDigest

\* the try block of verify(): what it throws, if anything
verifyTry(pdf) ==
    LET x == extractSignature(pdf)
    IN  IF x.threw THEN x.error
        ELSE IF ~DerParses(x.signature)
        THEN OtherError("forge: cannot parse the signature")
        ELSE LET message == FromDer(x.signature)
             IN  IF ~knownDigest(message.digestAlgorithm)
                 THEN OtherError("TypeError: unknown digest algorithm")
                 ELSE IF message.certificates = <<>>
                 THEN OtherError("TypeError: no certificate")
                 ELSE IF ~validAuthenticatedAttributes(message)
                 THEN SignPdfError("Wrong authenticated attributes", <<>>, VERIFY_SIGNATURE)
                 ELSE IF ~validContentDigest(message, x.signedData)
                 THEN SignPdfError("Wrong content digest", <<>>, VERIFY_SIGNATURE)
                 ELSE NoError

\* mutant of catchMessage: every caught error gets the generic message
catchMessageGeneric(err) == "couldn't verify file signature"

\* err instanceof SignPdfError ? err.message : 'couldn\'t verify file signature'
catchMessage(err) ==
    IF err.isSignPdfError THEN err.message ELSE "couldn't verify file signature"

\* the object verify() returns; `message` is absent ("") when verified
VerificationResult(verified, message) == [verified |-> verified, message |-> message]

\* mutant of verify: the catch block rethrows what is not a SignPdfError
verifyRethrows(pdfBuffer) ==
    IF ~pdfBuffer.isBuffer
    THEN [threw |-> TRUE,
          error |-> SignPdfError("PDF expected as Buffer.", <<>>, TYPE_INPUT),
          result |-> VerificationResult(FALSE, "")]
    ELSE LET err == verifyTry(pdfBuffer.bytes)
         IN  IF err # NoError /\ ~err.isSignPdfError
             THEN [threw |-> TRUE, error |-> err, result |-> VerificationResult(FALSE, "")]
             ELSE [threw  |-> FALSE,
                   error  |-> NoError,
                   result |-> IF err = NoError
                              THEN VerificationResult(TRUE, "")
                              ELSE VerificationResult(FALSE, catchMessage(err))]

\* verify(pdfBuffer)
verify(pdfBuffer) ==
    IF ~pdfBuffer.isBuffer
    THEN [threw |-> TRUE,
          error |-> SignPdfError("PDF expected as Buffer.", <<>>, TYPE_INPUT),
          result |-> VerificationResult(FALSE, "")]
    ELSE LET err == verifyTry(pdfBuffer.bytes)
         IN  [threw  |-> FALSE,
              error  |-> NoError,
              result |-> IF err = NoError
                         THEN VerificationResult(TRUE, "")
                         ELSE VerificationResult(FALSE, catchMessage(err))]


(***************************************************************************)
(* The inputs the calls are given.                                         *)
(***************************************************************************)
NotABuffer == [isBuffer |-> FALSE, bytes |-> <<>>]
BufferOf(bytes) == [isBuffer |-> TRUE, bytes |-> bytes]

\* hex characters the smallest signature (one certificate) needs, less two
BasePayload == (2 * DerLength(1)) - 2
Payloads == BasePayload .. (BasePayload + MaxExtraWidth)
TypicalPayload == BasePayload + 4

DictOpen == <<"<", "<">>
DecoyContents == ContentsTag \o <<"<", "0", ">", " ">>
DictClose == <<">", ">", "%">>

\* a document: prefix, the ByteRange placeholder, '/Contents ', '<', a payload
\* of zeroes, '>', suffix, a final newline; each of them present or not
MkDoc(p) ==
    p.prefix
        \o (IF p.byteRange THEN byteRangeString ELSE <<>>)
        \o <<" ">>
        \o (IF p.contents THEN ContentsTag ELSE <<>>)
        \o (IF p.open THEN <<"<">> ELSE <<>>)
        \o Repeat(<<"0">>, p.payload)
        \o (IF p.close THEN <<">">> ELSE <<>>)
        \o p.suffix
        \o (IF p.newline THEN <<"\n">> ELSE <<>>)

AllParts ==
    [prefix : {DictOpen, DecoyContents}, byteRange : BOOLEAN, contents : BOOLEAN,
     open : BOOLEAN, payload : Payloads, close : BOOLEAN,
     suffix : {DictClose, <<>>}, newline : BOOLEAN]

\* the placeholder literal, then '/Contents ', then '<' payload '>'
WellFormed(p) == p.byteRange /\ p.contents /\ p.open /\ p.close

Count(b) == IF b THEN 1 ELSE 0

\* well-formed documents of every payload width, or of the typical width with
\* one variation; documents of the typical width that lack one of the tags
DocParts ==
    {p \in AllParts :
        LET variations == Count(p.prefix # DictOpen) + Count(p.suffix # DictClose)
                              + Count(p.newline)
            missing == Count(~p.byteRange) + Count(~p.contents) + Count(~p.open)
                           + Count(~p.close)
        IN  \/ missing = 0 /\ variations = 0
            \/ missing = 0 /\ variations = 1 /\ p.payload = TypicalPayload
            \/ missing = 1 /\ p.payload = TypicalPayload /\ p.prefix = DictOpen
                   /\ ~p.newline}

PdfInputs == {NotABuffer} \cup {BufferOf(MkDoc(p)) : p \in DocParts}

PrivateKey == [n |-> 1, e |-> 1]
ClientCert == [serial |-> 1, n |-> 1, e |-> 1]
RenewedCert == [serial |-> 2, n |-> 1, e |-> 1]
CaCert == [serial |-> 3, n |-> 2, e |-> 1]
OtherExponentCert == [serial |-> 3, n |-> 1, e |-> 2]

P12Of(certBags) ==
    [isBuffer |-> TRUE, parses |-> TRUE, certBags |-> certBags, key |-> PrivateKey]

\* a buffer forge cannot read as a PKCS#12 container (or the wrong passphrase)
GarbageP12 == [isBuffer |-> TRUE, parses |-> FALSE, certBags |-> <<>>, key |-> PrivateKey]

NotAP12Buffer == [isBuffer |-> FALSE, parses |-> FALSE, certBags |-> <<>>, key |-> PrivateKey]

P12Inputs ==
    {NotAP12Buffer, GarbageP12,
     P12Of(<<ClientCert>>), P12Of(<<CaCert, ClientCert>>),
     P12Of(<<ClientCert, RenewedCert>>), P12Of(<<OtherExponentCert>>)}

\* what new Date() may return
Times == {1, 2}

\* this.lastSignature = null
Null == <<"null">>

(***************************************************************************)
(* The state machine.                                                      *)
(***************************************************************************)
NoCall ==
    [op |-> "new", threw |-> FALSE, error |-> NoError, value |-> <<>>,
     result |-> VerificationResult(FALSE, ""), pdfBuffer |-> NotABuffer,
     tampered |-> -1]

\* new SignPdf()
Init ==
    /\ lastSignature = Null
    /\ held = <<>>
    /\ loc = NoLocals
    /\ ret = NoCall

\* every sign() call of the model with what it does
SignCalls ==
    {[pdfBuffer |-> c[1], p12Buffer |-> c[2], now |-> c[3], r |-> sign(c[1], c[2], c[3])] :
        c \in PdfInputs \X P12Inputs \X Times}

\* signer.sign(pdfBuffer, p12Buffer)
Sign ==
    \E c \in SignCalls :
        /\ lastSignature' = IF c.r.stored THEN c.r.loc.signature ELSE lastSignature
        /\ held' = c.r.value
        /\ loc' = c.r.loc
        /\ ret' = [NoCall EXCEPT !.op = "sign", !.threw = c.r.threw, !.error = c.r.error,
                                 !.value = c.r.value]

\* signer.verify(pdfBuffer), on the held document or on something else
Verify ==
    \E pdfBuffer \in {NotABuffer, BufferOf(held)} :
        LET r == verify(pdfBuffer)
        IN  /\ ret' = [NoCall EXCEPT !.op = "verify", !.threw = r.threw, !.error = r.error,
                                     !.result = r.result, !.pdfBuffer = pdfBuffer,
                                     !.tampered = ret.tampered]
            /\ UNCHANGED <<lastSignature, held, loc>>

\* offsets of the held document a byte of which may be changed: its first and
\* last byte, a digit of the /ByteRange text, the second hex digit of every
\* byte of the Contents payload, the byte after the Contents field
TamperOffsets ==
    {o \in {0, Len(held) - 1, loc.byteRangePos + Len(ByteRangeTag) + 2, loc.byteRange[3]}
              \cup {loc.byteRange[2] + (2 * k) : k \in 1 .. (Len(loc.padded) \div 2)} :
        o >= 0 /\ o < Len(held)}

TamperChar(c) == IF c = "1" THEN "2" ELSE "1"

\* somebody changes one byte of the signed document the caller holds
Tamper ==
    /\ ret.op = "sign"
    /\ ~ret.threw
    /\ ret.tampered = -1
    /\ \E o \in TamperOffsets :
           /\ held' = [held EXCEPT ![o + 1] = TamperChar(held[o + 1])]
           /\ ret' = [ret EXCEPT !.tampered = o]
    /\ UNCHANGED <<lastSignature, loc>>

Next == Sign \/ Verify \/ Tamper

Spec == Init /\ [][Next]_vars


(***************************************************************************)
(* What the properties below talk about.                                   *)
(***************************************************************************)
\* the last call was sign() and nothing touched its result since
JustSigned == ret.op = "sign" /\ ret.tampered = -1
SignReturned == JustSigned /\ ~ret.threw
SignThrew(type) == JustSigned /\ ret.threw /\ ret.error.isSignPdfError /\ ret.error.type = type

\* the sign() call read the document MkDoc(p)
SignedParts(p) == loc.pdfBuffer = MkDoc(p)

\* offset of the '<' of the Contents field in MkDoc(p), from how MkDoc puts the
\* document together
OpenOffset(p) == Len(p.prefix) + Len(byteRangeString) + 1 + Len(ContentsTag)

\* needle occurs in buf at an offset >= from
OccursFrom(buf, needle, from) ==
    \E i \in from .. (Len(buf) - Len(needle)) : SubSeq(buf, i + 1, i + Len(needle)) = needle

\* offsets at which needle occurs in buf at or after from
Occurrences(buf, needle, from) ==
    {i \in from .. (Len(buf) - Len(needle)) : SubSeq(buf, i + 1, i + Len(needle)) = needle}

\* buf has the placeholder literal, a '/Contents ' tag after it, a '<' after
\* the tag and a '>' after that '<'
HasAllTags(buf) ==
    \E a \in Occurrences(buf, byteRangeString, 0) :
        \E c \in Occurrences(buf, ContentsTag, a + Len(byteRangeString)) :
            \E o \in Occurrences(buf, <<"<">>, c) : OccursFrom(buf, <<">">>, o)

AllZeroes(s) == \A i \in 1 .. Len(s) : s[i] = "0"

(***************************************************************************)
(* C1: round trip. verify(sign(doc, p12)) returns verified = true for a    *)
(* document with the placeholder literal and a '/Contents <...>' field     *)
(* wide enough for the signature, and a PKCS#12 container with a           *)
(* certificate that matches the key.                                       *)
(***************************************************************************)
C1_RoundTrip ==
    (/\ ret.op = "verify"
     /\ ret.tampered = -1
     /\ held # <<>>
     /\ ret.pdfBuffer = BufferOf(held)
     /\ \E p \in DocParts : WellFormed(p) /\ SignedParts(p))
        => (~ret.threw /\ ret.result.verified)

(***************************************************************************)
(* C2: the ByteRange sign() computes for a document with the placeholder   *)
(* and a Contents field: start0 = 0, len0 = offset of '<', start1 = len0 + *)
(* field width, len0 + len1 + field width = length of the document.        *)
(***************************************************************************)
ByteRangeAround(p, length) ==
    /\ loc.byteRange[1] = 0
    /\ loc.byteRange[2] = OpenOffset(p)
    /\ loc.byteRange[3] = loc.byteRange[2] + (p.payload + 2)
    /\ loc.byteRange[2] + loc.byteRange[4] + (p.payload + 2) = length

C3_PayloadFillsPlaceholder ==
    SignReturned
        => /\ Len(loc.padded) = loc.placeholderLength
           /\ SubSeq(loc.padded, 1, Len(loc.signature)) = loc.signature
           /\ AllZeroes(SubSeq(loc.padded, Len(loc.signature) + 1, Len(loc.padded)))
           /\ Slice(ret.value, loc.byteRange[2],
                    loc.byteRange[2] + loc.placeholderLength + 2)
                  = <<"<">> \o loc.padded \o <<">">>

(***************************************************************************)
(* C4: a signature whose hex length exceeds placeholderLength makes sign() *)
(* fail with the InputError 'Signature exceeds placeholder length', before *)
(* anything is spliced and with no buffer returned; a signature whose hex  *)
(* length equals placeholderLength is embedded.                            *)
(***************************************************************************)
C4_CapacityCheck ==
    (JustSigned /\ loc.builtSignature)
        => /\ (Len(loc.signature) > loc.placeholderLength)
                  => /\ SignThrew(TYPE_INPUT)
                     /\ ret.error.message = "Signature exceeds placeholder length: "
                     /\ ret.error.detail = ToDec(Len(loc.signature)) \o <<" ", ">", " ">>
                                               \o ToDec(loc.placeholderLength)
                     /\ ret.value = <<>>
                     /\ held = <<>>
                     /\ loc.padded = <<>>
           /\ (Len(loc.signature) = loc.placeholderLength)
                  => /\ ~ret.threw
                     /\ loc.padded = loc.signature
                     /\ OccursFrom(ret.value, <<"<">> \o loc.signature \o <<">">>, 0)

C4_Witness ==
    /\ SignThrew(TYPE_INPUT)
    /\ loc.builtSignature
    /\ loc.placeholderLength > 0
    /\ Len(loc.signature) = loc.placeholderLength + 2

(***************************************************************************)
(* C5: verify() never raises; every failure is a returned value            *)
(* {verified: false, reason: <string>}.                                    *)
(***************************************************************************)
\* C5 as stated
C5_VerifyNeverRaises ==
    ret.op = "verify" => (~ret.threw /\ (~ret.result.verified => ret.result.message # ""))

FailureMessages ==
    {"Wrong authenticated attributes", "Wrong content digest",
     "couldn't verify file signature", "Failed to locate ByteRange."}

\* C5 amended: verify() raises the InputError 'PDF expected as Buffer.' when
\* its argument is not a Buffer and only then; given a Buffer it returns
\* either {verified: true} or {verified: false, message: <string>}
C5_VerifyRaisesOnlyOnNonBuffer ==
    ret.op = "verify"
        => /\ ret.threw <=> ~ret.pdfBuffer.isBuffer
           /\ ret.threw => ret.error = SignPdfError("PDF expected as Buffer.", <<>>, TYPE_INPUT)
           /\ ~ret.threw
                  => \/ ret.result.verified /\ ret.result.message = ""
                     \/ ~ret.result.verified /\ ret.result.message \in FailureMessages

C5_Witness ==
    /\ ret.op = "verify"
    /\ ~ret.threw
    /\ ret.tampered >= 0
    /\ ret.result = VerificationResult(FALSE, "couldn't verify file signature")

(***************************************************************************)
(* C6: sign() fails with a ParseError, and computes no ByteRange and       *)
(* builds no signature, when the document lacks the placeholder literal,   *)
(* the '/Contents ' tag after it, or the '<' and '>' after that tag; the   *)
(* message names the placeholder literal when that is what is missing.     *)
(***************************************************************************)
C6_ParseErrorWhenTagsMissing ==
    (JustSigned /\ loc.pdfBuffer # <<>> /\ ~HasAllTags(loc.pdf))
        => /\ SignThrew(TYPE_PARSE)
           /\ ~loc.computedByteRange
           /\ ~loc.builtSignature
           /\ ~OccursFrom(loc.pdf, byteRangeString, 0)
                  => ret.error.detail = byteRangeString


(***************************************************************************)
(* C7: for a document whose embedded signature parses, verify() returns    *)
(* verified = true exactly when the signature over the authenticated       *)
(* attributes and the content digest are both right; a wrong attribute     *)
(* signature gives 'Wrong authenticated attributes' whatever the digest,   *)
(* a right one with a digest that differs (a byte of the signed spans was  *)
(* changed after signing) gives 'Wrong content digest'.                    *)
(***************************************************************************)
\* the signature verify() read from the document parses, up to the two checks
SignatureParses(x) ==
    /\ ~x.threw
    /\ DerParses(x.signature)
    /\ FromDer(x.signature).digestAlgorithm = Sha256Oid
    /\ FromDer(x.signature).certificates # <<>>

\* the first certificate of the message made this signature over these attributes
AttributesSigned(m) ==
    m.signature = <<m.contentType>> \o m.messageDigest \o <<m.signingTime, KeyByte(m.certificates[1])>>

\* offset o lies in one of the two spans the ByteRange r denotes
InSignedSpans(r, o) ==
    \/ r[1] <= o /\ o < r[1] + r[2]
    \/ r[3] <= o /\ o < r[3] + r[4]

\* C7: verified exactly when both checks pass, and each failed check gives its
\* own reason
C7_VerifyReasons ==
    LET x == extractSignature(ret.pdfBuffer.bytes)
        m == FromDer(x.signature)
    IN  (ret.op = "verify" /\ ~ret.threw /\ SignatureParses(x))
            => /\ ret.result.verified
                      <=> (AttributesSigned(m) /\ Digest(x.signedData) = m.messageDigest)
               /\ ~AttributesSigned(m)
                      => ret.result = VerificationResult(FALSE, "Wrong authenticated attributes")
               /\ (AttributesSigned(m) /\ Digest(x.signedData) # m.messageDigest)
                      => ret.result = VerificationResult(FALSE, "Wrong content digest")
               /\ (/\ AttributesSigned(m)
                   /\ ret.tampered >= 0
                   /\ InSignedSpans(x.ByteRange, ret.tampered)
                   /\ ret.pdfBuffer.bytes = held)
                      => ret.result = VerificationResult(FALSE, "Wrong content digest")

C7_Witness ==
    /\ ret.op = "verify"
    /\ ret.tampered >= 0
    /\ InSignedSpans(loc.byteRange, ret.tampered)
    /\ ret.result = VerificationResult(FALSE, "Wrong content digest")

(***************************************************************************)
(* C8: of several certificates whose n and e equal the private key's, one  *)
(* is bound to the signer; every certificate bag, matching or not, is      *)
(* registered in the signature's certificate list.                         *)
(***************************************************************************)
MatchingBags == {i \in 1 .. Len(loc.certBags) : keyMatches(loc.privateKey, loc.certBags[i])}

\* the SignedData the call serialized, read back from its hex encoding
BuiltMessage == FromDer(FromHex(loc.signature))

SignerIs(i) ==
    /\ loc.certificate = i
    /\ BuiltMessage.signerSerial = loc.certBags[i].serial

AllBagsRegistered ==
    /\ loc.certificates = loc.certBags
    /\ BuiltMessage.certificates = loc.certBags

\* C8 as stated: the first match in bag order is the signer, every bag is
\* registered
C8_FirstMatchSigns ==
    (JustSigned /\ loc.builtSignature)
        => /\ \E i \in MatchingBags : SignerIs(i) /\ \A j \in MatchingBags : i <= j
           /\ AllBagsRegistered

\* C8 amended: the last match in bag order is the signer, every bag is
\* registered
C8_LastMatchSigns ==
    (JustSigned /\ loc.builtSignature)
        => /\ \E i \in MatchingBags : SignerIs(i) /\ \A j \in MatchingBags : j <= i
           /\ AllBagsRegistered

C8_Witness ==
    /\ JustSigned
    /\ loc.builtSignature
    /\ Cardinality(MatchingBags) = 2
    /\ SignerIs(2)

(***************************************************************************)
(* C9: sign() shifts no byte.  When it succeeds the output is as long as   *)
(* the buffer the placeholder was located in, every byte outside the       *)
(* /ByteRange text and outside the Contents field is the same at the same  *)
(* offset, the /ByteRange text is as wide as the placeholder text, and the *)
(* ByteRange values written describe the output: '<' at len0, the byte     *)
(* before start1 is '>', start1 + len1 is the length of the output.        *)
(***************************************************************************)
C9_NoByteShifts ==
    SignReturned
        => /\ Len(ret.value) = Len(loc.pdf)
           /\ \A o \in 0 .. (Len(loc.pdf) - 1) :
                  (/\ ~(loc.byteRangePos <= o /\ o < loc.byteRangeEnd)
                   /\ ~(loc.placeholderPos <= o /\ o <= loc.placeholderEnd))
                      => (o < Len(ret.value) /\ ret.value[o + 1] = loc.pdf[o + 1])
           /\ Len(loc.actualByteRange) = Len(byteRangeString)
           /\ Slice(ret.value, loc.byteRangePos, loc.byteRangeEnd) = loc.actualByteRange
           /\ Slice(ret.value, loc.byteRange[2], loc.byteRange[2] + 1) = <<"<">>
           /\ Slice(ret.value, loc.byteRange[3] - 1, loc.byteRange[3]) = <<">">>
           /\ loc.byteRange[3] + loc.byteRange[4] = Len(ret.value)

(***************************************************************************)
(* C10: lastSignature is null until a sign() call passes the capacity      *)
(* check; from then on it is the unpadded hex encoding of the signature    *)
(* built by the most recent call that passed it.  A sign() call that fails *)
(* and every verify() call leave it as it was.                             *)
(***************************************************************************)
\* the step is a sign() call (the primed state is the one it leaves)
SignStep == ret'.op = "sign" /\ ret'.tampered = -1

\* the sign() call of the step built a signature that fits the placeholder
PassesCapacityCheck ==
    loc'.builtSignature /\ Len(loc'.signature) <= loc'.placeholderLength

\* C10: null at first; every step that is a sign() call passing the capacity
\* check stores its unpadded hex signature, every other step leaves it alone
C10_LastSignature ==
    /\ lastSignature = Null
    /\ [][/\ (SignStep /\ PassesCapacityCheck)
                 => (lastSignature' = loc'.signature /\ loc'.signature # <<>>)
          /\ (SignStep /\ ~PassesCapacityCheck) => (ret'.threw /\ lastSignature' = lastSignature)
          /\ (SignStep /\ ret'.threw) => lastSignature' = lastSignature
          /\ ~SignStep => lastSignature' = lastSignature]_vars

C10_Witness ==
    /\ lastSignature # Null
    /\ lastSignature # loc.signature
    /\ loc.builtSignature
    /\ SignThrew(TYPE_INPUT)

=============================================================================
